---- MODULE Spec2Model ----
(***************************************************************************)
(* Model of @intrnl/postcss-modules: the OnceExit transform of             *)
(* src/src/index.js (parsel variant) and of src/unnamed/part_000           *)
(* (postcss-selector-parser variant).                                      *)
(*                                                                         *)
(* One behaviour is one transform run over one stylesheet.  Every action   *)
(* is one invocation of a walk callback (or the end of a walk, or the      *)
(* emission of the export record).  A thrown error ends the run.           *)
(*                                                                         *)
(* Selector text is carried as the structure the text denotes (a list of   *)
(* branches, each a sequence of compounds joined by the descendant         *)
(* combinator, each a sequence of simple selectors) and, once written      *)
(* back, as a sequence of lexemes whose concatenation is the CSS text.     *)
(***************************************************************************)
EXTENDS Integers, Sequences, FiniteSets, TLC

\* variant: "parsel" is src/src/index.js, "psp" is src/unnamed/part_000
\* input: the stylesheet as handed to OnceExit; root: the stylesheet, mutated
\* pass, cursor: the walk in progress and the last node it called back on
VARIABLES variant, generateScopedName, file, input, root, locals, index,
          pass, cursor, error, messages

vars == <<variant, generateScopedName, file, input, root, locals, index,
          pass, cursor, error, messages>>

\* Longest stylesheet (number of top-level nodes) the model explores.
MaxNodes == 2

Range(s) == {s[i] : i \in 1..Len(s)}

----------------------------------------------------------------------------
\* Selector syntax (what a selector string denotes)

Cls(n) == [type |-> "class", name |-> n, call |-> FALSE, arg |-> <<>>]
Id(n) == [type |-> "id", name |-> n, call |-> FALSE, arg |-> <<>>]
Tag(n) == [type |-> "type", name |-> n, call |-> FALSE, arg |-> <<>>]
\* a pseudo-class written without parentheses
Bare(n) == [type |-> "pseudo-class", name |-> n, call |-> FALSE, arg |-> <<>>]
\* a pseudo-class written with parentheses around the selector list a
Call(n, a) == [type |-> "pseudo-class", name |-> n, call |-> TRUE, arg |-> a]

\* one branch made of one compound made of the simple selectors in s
One(s) == << <<s>> >>

SelA == One(<<Cls("a")>>)
SelFoo == One(<<Cls("foo")>>)
SelIdB == One(<<Id("b")>>)
SelAB == << <<<<Cls("a")>>>>, <<<<Cls("b")>>>> >>
SelAHover == One(<<Cls("a"), Bare("hover")>>)
SelAButton == << <<<<Cls("a")>>>>, <<<<Tag("button")>>>> >>
SelADescB == << <<<<Cls("a")>>, <<Cls("b")>>>> >>
SelGlobalAThenB == << <<<<Call("global", SelA)>>, <<Cls("b")>>>> >>
SelGlobalANotB == One(<<Call("global", One(<<Cls("a"), Call("not", One(<<Cls("b")>>))>>))>>)
SelLocalA == One(<<Call("local", SelA)>>)
SelBareGlobalThenB == << <<<<Bare("global")>>, <<Cls("b")>>>> >>
SelABareLocal == One(<<Cls("a"), Bare("local")>>)
SelLocalEmpty == One(<<Call("local", <<>>)>>)
SelGlobalAB == One(<<Call("global", SelAB)>>)

SimpleSelectors == {SelA, SelFoo, SelIdB, SelAB}
ComplexSelectors == {SelAHover, SelAButton, SelADescB}
ScopedSelectors == {SelGlobalAThenB, SelGlobalANotB, SelLocalA, SelBareGlobalThenB,
                    SelABareLocal, SelLocalEmpty, SelGlobalAB}
Selectors == SimpleSelectors \cup ComplexSelectors \cup ScopedSelectors

\* The source text of a selector, as lexemes.
RECURSIVE SourceList(_), SourceBranch(_), SourceCompound(_), SourceSimple(_)
SourceSimple(s) ==
    CASE s.type = "class" -> <<"." \o s.name>>
      [] s.type = "id" -> <<"#" \o s.name>>
      [] s.type = "type" -> <<s.name>>
      [] OTHER -> IF s.call
                  THEN <<":" \o s.name, "(">> \o SourceList(s.arg) \o <<")">>
                  ELSE <<":" \o s.name>>
SourceCompound(c) ==
    IF c = <<>> THEN <<>> ELSE SourceSimple(Head(c)) \o SourceCompound(Tail(c))
SourceBranch(b) ==
    IF Len(b) = 1 THEN SourceCompound(b[1])
    ELSE SourceCompound(Head(b)) \o <<" ">> \o SourceBranch(Tail(b))
SourceList(l) ==
    IF l = <<>> THEN <<>>
    ELSE IF Len(l) = 1 THEN SourceBranch(l[1])
    ELSE SourceBranch(Head(l)) \o <<",", " ">> \o SourceList(Tail(l))

----------------------------------------------------------------------------
\* Declarations and stylesheet nodes

Word(t) == [text |-> t, open |-> "", close |-> ""]
Quoted(o, t, c) == [text |-> t, open |-> o, close |-> c]

NoDecl == [prop |-> "none", value |-> <<>>]
Decl(p, v) == [prop |-> p, value |-> v]

ComposesFoo == Decl("composes", <<Word("foo")>>)
ComposesFooGlobal == Decl("composes", <<Word("foo"), Word("from"), Word("global")>>)
ComposesFooDep == Decl("composes", <<Word("foo"), Word("from"), Quoted("'", "./x.css", "'")>>)
ComposesBadQuote == Decl("composes", <<Word("foo"), Word("from"), Quoted("'", "./x.css", "\"")>>)
AnimationNameRotate == Decl("animation-name", <<Word("rotate")>>)
AnimationRotate == Decl("animation", <<Word("rotate"), Word("1.4s"), Word("linear"), Word("infinite")>>)
AnimationFoo == Decl("animation", <<Word("foo"), Word("1.4s")>>)

Rule(sel, d, nested) ==
    [kind |-> "rule", sel |-> sel, selector |-> SourceList(sel), decl |-> d,
     nested |-> nested, params |-> ""]
Keyframes(n) ==
    [kind |-> "atrule", sel |-> <<>>, selector |-> <<>>, decl |-> NoDecl,
     nested |-> FALSE, params |-> n]

Templates ==
    {Rule(s, NoDecl, FALSE) : s \in Selectors}
    \cup {Rule(s, ComposesFoo, FALSE) : s \in SimpleSelectors \cup ComplexSelectors}
    \cup {Rule(SelFoo, d, FALSE) : d \in {ComposesFooGlobal, ComposesFooDep, ComposesBadQuote,
                                           AnimationNameRotate, AnimationRotate, AnimationFoo}}
    \cup {Rule(SelA, d, FALSE) : d \in {ComposesFooGlobal, ComposesFooDep}}
    \cup {Rule(SelA, ComposesFoo, TRUE)}
    \cup {Keyframes("rotate"), Keyframes("foo")}

Sheets == UNION {[1..n -> Templates] : n \in 1..MaxNodes}

----------------------------------------------------------------------------
\* Scoped name generators

Files == {"", "src/app.css"}

\* base64url(MD5(path)).slice(0, 6) of the two paths above ("" is also what a
\* missing file name hashes), and the char code of its first character.
Digest(f) == IF f = "" THEN "1B2M2Y" ELSE "WjnDF4"
DigestStart(f) == IF f = "" THEN 49 ELSE 87

generateLongScopedName(local, filename, idx) == local \o "_" \o Digest(filename)

generateShortScopedName(local, filename, idx) ==
    LET start == DigestStart(filename)
        isAlpha == (start >= 97 /\ start <= 122) \/ (start >= 65 /\ start <= 90)
    IN (IF ~isAlpha THEN "_" ELSE "") \o Digest(filename) \o ToString(idx)

Generate(g, local, filename, idx) ==
    IF g = "short" THEN generateShortScopedName(local, filename, idx)
    ELSE generateLongScopedName(local, filename, idx)

----------------------------------------------------------------------------
\* Local registry.  A registry value L is [locals, index]: locals is the
\* object's entries in insertion order, index the ordinal counter.

Keys(ls) == {ls[i].name : i \in 1..Len(ls)}
Has(ls, n) == n \in Keys(ls)
Entry(ls, n) == ls[CHOOSE i \in 1..Len(ls) : ls[i].name = n]

BumpNever(v, idx) == idx

\* index++ of index.js; part_000 has no counter
Bump(v, idx) == IF v = "parsel" THEN idx + 1 ELSE idx

retrieveLocalAlwaysNew(L, n) ==
    [locals |-> Append(L.locals,
                       [name |-> n,
                        local |-> Generate(generateScopedName, n, file, L.index),
                        composes |-> <<>>]),
     index |-> Bump(variant, L.index)]

retrieveLocal(L, n) ==
    IF Has(L.locals, n) THEN L
    ELSE [locals |-> Append(L.locals,
                            [name |-> n,
                             local |-> Generate(generateScopedName, n, file, L.index),
                             composes |-> <<>>]),
          index |-> Bump(variant, L.index)]

LocalOf(L, n) == Entry(retrieveLocal(L, n).locals, n).local

Reg == [locals |-> locals, index |-> index]

----------------------------------------------------------------------------
\* Selector parsers

Null == [type |-> "null"]

\* pseudo-classes whose argument parsel parses into node.subtree
RECURSIVE_PSEUDO_CLASSES == {"not", "is", "where", "has"}

\* parsel.parse(text): a single token stands for itself, several tokens without
\* a combinator make a compound, combinators nest to the left, commas make a list;
\* an empty or missing text gives null.
RECURSIVE parselParse(_), parselBranch(_)
parselToken(s) ==
    IF s.type = "pseudo-class"
    THEN [type |-> "pseudo-class", name |-> s.name, call |-> s.call, argument |-> s.arg,
          subtree |-> IF s.call /\ s.arg # <<>> /\ s.name \in RECURSIVE_PSEUDO_CLASSES
                      THEN parselParse(s.arg) ELSE Null]
    ELSE [type |-> s.type, name |-> s.name, global |-> FALSE]
parselCompound(c) ==
    IF Len(c) = 1 THEN parselToken(c[1])
    ELSE [type |-> "compound", list |-> [i \in 1..Len(c) |-> parselToken(c[i])]]
parselBranch(b) ==
    IF Len(b) = 1 THEN parselCompound(b[1])
    ELSE [type |-> "complex", combinator |-> " ",
          left |-> parselBranch(SubSeq(b, 1, Len(b) - 1)),
          right |-> parselCompound(b[Len(b)])]
parselParse(l) ==
    IF l = <<>> THEN Null
    ELSE IF Len(l) = 1 THEN parselBranch(l[1])
    ELSE [type |-> "list", list |-> [i \in 1..Len(l) |-> parselBranch(l[i])]]

\* parsel.parse(node.argument): a pseudo-class without parentheses has no argument
parselParseArgument(node) == IF node.call THEN parselParse(node.argument) ELSE Null

\* postcss-selector-parser: a root of selectors, each a flat sequence of nodes;
\* a pseudo holds one selector per comma-separated argument, "()" holds one empty
\* selector and a pseudo without parentheses holds none.  A selector after a
\* comma keeps the space written before it.
RECURSIVE pspSelectors(_), pspNodes(_)
pspSimple(s) ==
    CASE s.type = "class" -> [type |-> "class", value |-> s.name]
      [] s.type = "id" -> [type |-> "id", value |-> s.name]
      [] s.type = "type" -> [type |-> "tag", value |-> s.name]
      [] OTHER -> [type |-> "pseudo", value |-> ":" \o s.name, call |-> s.call,
                   nodes |-> IF ~s.call THEN <<>>
                             ELSE IF s.arg = <<>>
                             THEN <<[type |-> "selector", before |-> "", nodes |-> <<>>]>>
                             ELSE pspSelectors(s.arg)]
pspNodes(b) ==
    LET first == [i \in 1..Len(b[1]) |-> pspSimple(b[1][i])]
    IN IF Len(b) = 1 THEN first
       ELSE first \o <<[type |-> "combinator", value |-> " "]>> \o pspNodes(Tail(b))
pspSelectors(l) ==
    [i \in 1..Len(l) |-> [type |-> "selector", before |-> IF i = 1 THEN "" ELSE " ",
                          nodes |-> pspNodes(l[i])]]
astSync(l) == [type |-> "root", nodes |-> pspSelectors(l)]

----------------------------------------------------------------------------
\* composes

NoNames == [ok |-> FALSE, names |-> <<>>]

\* index.js: the loop over a list tests node.type, the type of the list itself
parselSelectorNames(node) ==
    IF node.type = "list"
    THEN IF \A i \in 1..Len(node.list) : node.type \in {"class", "id"}
         THEN [ok |-> TRUE, names |-> [i \in 1..Len(node.list) |-> node.list[i].name]]
         ELSE NoNames
    ELSE IF node.type \in {"class", "id"}
    THEN [ok |-> TRUE, names |-> <<node.name>>]
    ELSE NoNames

pspSelectorNamesFirstNode(selectors) ==
    IF \A i \in 1..Len(selectors.nodes) :
          /\ Len(selectors.nodes[i].nodes) >= 1
          /\ selectors.nodes[i].nodes[1].type \in {"class", "id"}
    THEN [ok |-> TRUE,
          names |-> [i \in 1..Len(selectors.nodes) |-> selectors.nodes[i].nodes[1].value]]
    ELSE NoNames

pspSelectorNames(selectors) ==
    IF \A i \in 1..Len(selectors.nodes) :
          /\ Len(selectors.nodes[i].nodes) = 1
          /\ selectors.nodes[i].nodes[1].type \in {"class", "id"}
    THEN [ok |-> TRUE,
          names |-> [i \in 1..Len(selectors.nodes) |-> selectors.nodes[i].nodes[1].value]]
    ELSE NoNames

retrieveSelectorNames(v, sel) ==
    IF v = "parsel" THEN parselSelectorNames(parselParse(sel))
    ELSE pspSelectorNames(astSync(sel))

ComplexSelectorMessage(v) ==
    IF v = "parsel" THEN "composes cannot be used with complex selectors"
    ELSE "composes cannot be used on a non-simple class selector"

\* COMPOSES_RE on a value given as its whitespace-separated tokens: a name,
\* optionally followed by "from" and either global or a quoted specifier
\* whose closing quote is its opening quote.
NoMatch == [ok |-> FALSE, name |-> "", specifier |-> "", quote |-> ""]
COMPOSES_RE(value) ==
    IF Len(value) = 1
    THEN [ok |-> TRUE, name |-> value[1].open \o value[1].text \o value[1].close,
          specifier |-> "", quote |-> ""]
    ELSE IF Len(value) = 3 /\ value[2] = Word("from")
    THEN IF value[3] = Word("global")
         THEN [ok |-> TRUE, name |-> value[1].text, specifier |-> "global", quote |-> ""]
         ELSE IF value[3].open # "" /\ value[3].open = value[3].close /\ value[3].text # ""
         THEN [ok |-> TRUE, name |-> value[1].text, specifier |-> value[3].text,
               quote |-> value[3].open]
         ELSE NoMatch
    ELSE NoMatch

\* the composition reference built from a match, and the registry after building it
Reference(L, m) ==
    IF m.specifier = "global" /\ m.quote = ""
    THEN [type |-> "global", name |-> m.name, local |-> "", specifier |-> ""]
    ELSE IF m.quote # ""
    THEN [type |-> "dependency", name |-> m.name, local |-> "", specifier |-> m.specifier]
    ELSE [type |-> "local", name |-> m.name, local |-> LocalOf(L, m.name), specifier |-> ""]
ReferenceRegistryAlways(L, m) == retrieveLocal(L, m.name)

ReferenceRegistry(L, m) ==
    IF (m.specifier = "global" /\ m.quote = "") \/ m.quote # "" THEN L
    ELSE retrieveLocal(L, m.name)

\* local.composes.push(res) on the entry of name n
Push(L, n, res) ==
    LET R == retrieveLocal(L, n)
    IN [R EXCEPT !.locals = [i \in 1..Len(R.locals) |->
                               IF R.locals[i].name = n
                               THEN [R.locals[i] EXCEPT !.composes = Append(@, res)]
                               ELSE R.locals[i]]]

RECURSIVE PushAll(_, _, _)
PushAll(L, names, res) ==
    IF names = <<>> THEN L
    ELSE PushAll(Push(L, Head(names), res), Tail(names), res)

----------------------------------------------------------------------------
\* Selector pass, index.js (parsel)

ScopeError(name) == "expected a single selector as argument to :" \o name \o "()"

\* parsel.walk(args, markAsGlobal): globals.add(node) on every class and id node
RECURSIVE markAsGlobal(_)
markAsGlobal(node) ==
    CASE node.type \in {"class", "id"} -> [node EXCEPT !.global = TRUE]
      [] node.type = "complex" ->
           [node EXCEPT !.left = markAsGlobal(node.left), !.right = markAsGlobal(node.right)]
      [] node.type \in {"compound", "list"} ->
           [node EXCEPT !.list = [i \in 1..Len(node.list) |-> markAsGlobal(node.list[i])]]
      [] node.type = "pseudo-class" -> [node EXCEPT !.subtree = markAsGlobal(node.subtree)]
      [] OTHER -> node

\* parsel.walk(node, walker, parent): the children first (the sides of a complex,
\* the members of a compound or list, the subtree of a pseudo-class that has
\* one), then walker(node, parent).  :local and :global carry their argument
\* as text only; walker parses it itself.
\* A result is the node now in the parent's slot, the registry, and the error thrown.
RECURSIVE parselWalk(_, _, _), parselWalkList(_, _, _, _), walker(_, _, _)
parselWalkList(list, k, parentType, L) ==
    IF k > Len(list) THEN [node |-> list, L |-> L, error |-> ""]
    ELSE LET r == parselWalk(list[k], parentType, L)
         IN IF r.error # "" THEN [node |-> list, L |-> r.L, error |-> r.error]
            ELSE parselWalkList([list EXCEPT ![k] = r.node], k + 1, parentType, r.L)

walker(node, parentType, L) ==
    IF node.type = "pseudo-class"
    THEN IF node.name \notin {"local", "global"}
         THEN [node |-> node, L |-> L, error |-> ""]
         ELSE LET args == parselParseArgument(node)
                  marked == IF node.name = "global" THEN markAsGlobal(args) ELSE args
                  r == parselWalk(marked, "pseudo-class", L)
              IN IF args.type \in {"null", "list"}
                 THEN [node |-> node, L |-> L, error |-> ScopeError(node.name)]
                 ELSE IF r.error # ""
                 THEN [node |-> node, L |-> r.L, error |-> r.error]
                 ELSE IF parentType \in {"none", "complex", "compound", "list"}
                 THEN [node |-> r.node, L |-> r.L, error |-> ""]
                 ELSE [node |-> node, L |-> r.L, error |-> ""]
    ELSE IF node.type \in {"class", "id"}
    THEN IF node.global
         THEN [node |-> node, L |-> L, error |-> ""]
         ELSE [node |-> [node EXCEPT !.name = LocalOf(L, node.name)],
               L |-> retrieveLocal(L, node.name), error |-> ""]
    ELSE [node |-> node, L |-> L, error |-> ""]

parselWalk(node, parentType, L) ==
    CASE node.type = "null" -> [node |-> node, L |-> L, error |-> ""]
      [] node.type = "complex" ->
           LET l == parselWalk(node.left, "complex", L)
               r == parselWalk(node.right, "complex", l.L)
           IN IF l.error # "" THEN [node |-> node, L |-> l.L, error |-> l.error]
              ELSE IF r.error # "" THEN [node |-> node, L |-> r.L, error |-> r.error]
              ELSE walker([node EXCEPT !.left = l.node, !.right = r.node], parentType, r.L)
      [] node.type \in {"compound", "list"} ->
           LET r == parselWalkList(node.list, 1, node.type, L)
           IN IF r.error # "" THEN [node |-> node, L |-> r.L, error |-> r.error]
              ELSE walker([node EXCEPT !.list = r.node], parentType, r.L)
      [] node.type = "pseudo-class" ->
           LET r == parselWalk(node.subtree, "pseudo-class", L)
           IN IF r.error # "" THEN [node |-> node, L |-> r.L, error |-> r.error]
              ELSE walker([node EXCEPT !.subtree = r.node], parentType, r.L)
      [] OTHER -> walker(node, parentType, L)

RECURSIVE stringify(_), stringifyJoin(_, _)
stringifyJoin(list, sep) ==
    IF list = <<>> THEN <<>>
    ELSE IF Len(list) = 1 THEN stringify(list[1])
    ELSE stringify(Head(list)) \o sep \o stringifyJoin(Tail(list), sep)
stringify(node) ==
    CASE node.type = "null" -> <<>>
      [] node.type = "type" -> <<node.name>>
      [] node.type = "class" -> <<"." \o node.name>>
      [] node.type = "id" -> <<"." \o node.name>>
      [] node.type = "pseudo-class" ->
           IF node.subtree # Null
           THEN <<":" \o node.name, "(">> \o stringify(node.subtree) \o <<")">>
           ELSE IF node.call /\ node.argument # <<>>
           THEN <<":" \o node.name, "(">> \o SourceList(node.argument) \o <<")">>
           ELSE <<":" \o node.name>>
      [] node.type = "complex" ->
           stringify(node.left) \o <<node.combinator>> \o stringify(node.right)
      [] node.type = "list" -> stringifyJoin(node.list, <<",">>)
      [] node.type = "compound" -> stringifyJoin(node.list, <<>>)

\* the body of the walkRules callback: [selector, L, error]
parselRule(sel, L) ==
    LET r == parselWalk(parselParse(sel), "none", L)
    IN [selector |-> stringify(r.node), L |-> r.L, error |-> r.error]

----------------------------------------------------------------------------
\* Selector pass, part_000 (postcss-selector-parser)

InvalidArgumentsManyOnly(node) == Len(node.nodes) > 1

\* :local(), a "call" but with no arguments, and :local(foo, bar)
InvalidArguments(node) == Len(node.nodes) > 1 \/ Len(node.nodes[1].nodes) < 1

\* selectors.walk(callback): the callback on a node, then on its descendants.
\* inGlobal is globals.has(node.parent) for the nodes of the container walked.
\* replaceWith puts the argument selector in the pseudo's slot; the walk then
\* descends into the replaced pseudo, whose only child is that same selector,
\* and the seen set keeps a class or id from being renamed twice.
RECURSIVE pspWalk(_, _, _, _), pspVisit(_, _, _)
pspWalk(nodes, k, inGlobal, L) ==
    IF k > Len(nodes) THEN [node |-> nodes, L |-> L, error |-> ""]
    ELSE LET r == pspVisit(nodes[k], inGlobal, L)
         IN IF r.error # "" THEN [node |-> nodes, L |-> r.L, error |-> r.error]
            ELSE pspWalk([nodes EXCEPT ![k] = r.node], k + 1, inGlobal, r.L)

pspVisit(node, inGlobal, L) ==
    CASE node.type = "selector" ->
           LET r == pspWalk(node.nodes, 1, FALSE, L)
           IN [node |-> [node EXCEPT !.nodes = r.node], L |-> r.L, error |-> r.error]
      [] node.type = "pseudo" ->
           IF node.value \notin {":local", ":global"}
           THEN LET r == pspWalk(node.nodes, 1, FALSE, L)
                IN [node |-> [node EXCEPT !.nodes = r.node], L |-> r.L, error |-> r.error]
           ELSE IF Len(node.nodes) < 1
           THEN [node |-> node, L |-> L, error |-> ""]
           ELSE IF InvalidArguments(node)
           THEN [node |-> node, L |-> L,
                 error |-> "expected a single selector as argument to " \o node.value \o "()"]
           ELSE LET selector == node.nodes[1]
                    r == pspWalk(selector.nodes, 1, node.value = ":global", L)
                IN [node |-> [selector EXCEPT !.nodes = r.node], L |-> r.L, error |-> r.error]
      [] node.type \in {"class", "id"} ->
           IF inGlobal THEN [node |-> node, L |-> L, error |-> ""]
           ELSE [node |-> [node EXCEPT !.value = LocalOf(L, node.value)],
                 L |-> retrieveLocal(L, node.value), error |-> ""]
      [] OTHER -> [node |-> node, L |-> L, error |-> ""]

transformSelectors(selectors, L) ==
    LET r == pspWalk(selectors.nodes, 1, FALSE, L)
    IN [node |-> [selectors EXCEPT !.nodes = r.node], L |-> r.L, error |-> r.error]

\* String(node) of postcss-selector-parser
RECURSIVE pspString(_), pspJoin(_, _)
pspJoin(nodes, sep) ==
    IF nodes = <<>> THEN <<>>
    ELSE IF Len(nodes) = 1 THEN pspString(nodes[1])
    ELSE pspString(Head(nodes)) \o sep \o pspJoin(Tail(nodes), sep)
pspString(node) ==
    CASE node.type = "root" -> pspJoin(node.nodes, <<",">>)
      [] node.type = "selector" ->
           (IF node.before = "" THEN <<>> ELSE <<node.before>>) \o pspJoin(node.nodes, <<>>)
      [] node.type = "class" -> <<"." \o node.value>>
      [] node.type = "id" -> <<"#" \o node.value>>
      [] node.type = "pseudo" ->
           IF Len(node.nodes) > 0
           THEN <<node.value, "(">> \o pspJoin(node.nodes, <<",">>) \o <<")">>
           ELSE <<node.value>>
      [] OTHER -> <<node.value>>

\* processor.processSync(rule.selector): [selector, L, error]
processSync(sel, L) ==
    LET r == transformSelectors(astSync(sel), L)
    IN [selector |-> pspString(r.node), L |-> r.L, error |-> r.error]

----------------------------------------------------------------------------
\* Walks

Matches(p, node) ==
    CASE p = "keyframes" -> node.kind = "atrule"
      [] p = "composes" -> node.kind = "rule" /\ node.decl.prop = "composes"
      [] p = "animation" -> node.kind = "rule" /\ node.decl.prop \in {"animation", "animation-name"}
      [] p = "rules" -> node.kind = "rule"
      [] OTHER -> FALSE

Pending(p) == {i \in (cursor + 1)..Len(root) : Matches(p, root[i])}
HasNext(p) == pass = p /\ Pending(p) # {}
NextNode(p) == CHOOSE i \in Pending(p) : \A j \in Pending(p) : i <= j

Init ==
    /\ variant \in {"parsel", "psp"}
    /\ generateScopedName \in {"long", "short"}
    /\ variant = "psp" => generateScopedName = "long"
    /\ file \in Files
    /\ input \in Sheets
    /\ root = input
    /\ locals = <<>>
    /\ index = 0
    /\ pass = "keyframes"
    /\ cursor = 0
    /\ error = ""
    /\ messages = <<>>

\* root.walkAtRules('keyframes', ...)
WalkKeyframes ==
    /\ HasNext("keyframes")
    /\ LET i == NextNode("keyframes")
           L == retrieveLocal(Reg, root[i].params)
       IN /\ root' = [root EXCEPT ![i].params = Entry(L.locals, root[i].params).local]
          /\ locals' = L.locals
          /\ index' = L.index
          /\ cursor' = i
    /\ UNCHANGED <<variant, generateScopedName, file, input, pass, error, messages>>

Fail(msg) ==
    /\ pass' = "failed"
    /\ error' = msg
    /\ UNCHANGED <<variant, generateScopedName, file, input, root, locals, index, cursor, messages>>

\* root.walkDecls('composes', ...)
WalkComposes ==
    /\ HasNext("composes")
    /\ LET i == NextNode("composes")
           decl == root[i].decl
           names == retrieveSelectorNames(variant, root[i].sel)
           match == COMPOSES_RE(decl.value)
           L == PushAll(ReferenceRegistry(Reg, match), names.names, Reference(Reg, match))
       IN IF root[i].nested
          THEN Fail("composes cannot be used within nested rules")
          ELSE IF ~names.ok
          THEN Fail(ComplexSelectorMessage(variant))
          ELSE IF ~match.ok
          THEN Fail("invalid composes")
          ELSE /\ root' = [root EXCEPT ![i].decl = NoDecl]
               /\ locals' = L.locals
               /\ index' = L.index
               /\ cursor' = i
               /\ UNCHANGED <<variant, generateScopedName, file, input, pass, error, messages>>

NextPass(p) ==
    CASE p = "keyframes" -> "composes"
      [] p = "composes" -> "animation"
      [] p = "animation" -> "rules"
      [] p = "rules" -> "emit"

\* a walk returns once it has called back on its last matching node
EndWalk ==
    /\ pass \in {"keyframes", "composes", "animation", "rules"}
    /\ Pending(pass) = {}
    /\ pass' = NextPass(pass)
    /\ cursor' = 0
    /\ UNCHANGED <<variant, generateScopedName, file, input, root, locals, index, error, messages>>

AnimationListKept(ls, value) == value

AnimationListAll(ls, value) ==
    [k \in 1..Len(value) |->
        Word(Generate(generateScopedName, value[k].text, file, Len(ls)))]

\* the body of the /^animation/ callback for the shorthand: split, replace the
\* tokens that are keys of locals, join
AnimationList(ls, value) ==
    [k \in 1..Len(value) |->
        IF Has(ls, value[k].text) THEN Word(Entry(ls, value[k].text).local) ELSE value[k]]

\* root.walkDecls(/^animation/, ...)
WalkAnimation ==
    /\ HasNext("animation")
    /\ LET i == NextNode("animation")
           decl == root[i].decl
           name == decl.value[1].text
           L == retrieveLocal(Reg, name)
       IN IF decl.prop = "animation-name"
          THEN /\ root' = [root EXCEPT ![i].decl.value = <<Word(Entry(L.locals, name).local)>>]
               /\ locals' = L.locals
               /\ index' = L.index
          ELSE /\ root' = [root EXCEPT ![i].decl.value = AnimationList(locals, decl.value)]
               /\ UNCHANGED <<locals, index>>
    /\ cursor' = NextNode("animation")
    /\ UNCHANGED <<variant, generateScopedName, file, input, pass, error, messages>>

\* result.messages.push({ type: 'export-locals', ..., locals })
Emit ==
    /\ pass = "emit"
    /\ messages' = Append(messages, [type |-> "export-locals", locals |-> locals])
    /\ pass' = "done"
    /\ UNCHANGED <<variant, generateScopedName, file, input, root, locals, index, cursor, error>>

\* root.walkRules(...)
WalkRules ==
    /\ HasNext("rules")
    /\ LET i == NextNode("rules")
           r == IF variant = "parsel" THEN parselRule(root[i].sel, Reg)
                ELSE processSync(root[i].sel, Reg)
       IN IF r.error # ""
          THEN Fail(r.error)
          ELSE /\ root' = [root EXCEPT ![i].selector = r.selector]
               /\ locals' = r.L.locals
               /\ index' = r.L.index
               /\ cursor' = i
               /\ UNCHANGED <<variant, generateScopedName, file, input, pass, error, messages>>

Next == WalkKeyframes \/ WalkComposes \/ WalkAnimation \/ WalkRules \/ Emit \/ EndWalk

Spec == Init /\ [][Next]_vars

----------------------------------------------------------------------------
\* Vocabulary of the properties, read off the selector as written

\* the simple selectors written at the top level of a selector list
Top(l) == UNION {UNION {Range(c) : c \in Range(b)} : b \in Range(l)}

\* every branch is exactly one class or id selector
IsSimpleList(l) ==
    /\ l # <<>>
    /\ \A b \in Range(l) : Len(b) = 1 /\ Len(b[1]) = 1 /\ b[1][1].type \in {"class", "id"}

IsScope(s) == s.type = "pseudo-class" /\ s.name \in {"local", "global"}

RECURSIVE AllNames(_), OutsideNames(_), GlobalNames(_), InvalidScopes(_), BareScopes(_),
          GlobalCalls(_)
\* the class and id names written anywhere in the selector list
AllNames(l) ==
    UNION {IF s.type \in {"class", "id"} THEN {s.name}
           ELSE IF s.type = "pseudo-class" /\ s.call THEN AllNames(s.arg)
           ELSE {} : s \in Top(l)}
\* ... outside every :global(...)
OutsideNames(l) ==
    UNION {IF s.type \in {"class", "id"} THEN {s.name}
           ELSE IF s.type = "pseudo-class" /\ s.call /\ s.name # "global"
           THEN OutsideNames(s.arg)
           ELSE {} : s \in Top(l)}
\* ... inside the argument of some :global(...)
GlobalNames(l) ==
    UNION {IF s.type = "pseudo-class" /\ s.call
           THEN IF s.name = "global" THEN AllNames(s.arg) ELSE GlobalNames(s.arg)
           ELSE {} : s \in Top(l)}
\* the :local(...) and :global(...) whose argument is empty or has a comma
InvalidScopes(l) ==
    UNION {IF s.type = "pseudo-class" /\ s.call
           THEN (IF IsScope(s) /\ Len(s.arg) # 1 THEN {s.name} ELSE {}) \cup InvalidScopes(s.arg)
           ELSE {} : s \in Top(l)}
\* the :local and :global written without parentheses
BareScopes(l) ==
    UNION {IF s.type = "pseudo-class"
           THEN IF s.call THEN BareScopes(s.arg)
                ELSE IF IsScope(s) THEN {s.name} ELSE {}
           ELSE {} : s \in Top(l)}
GlobalCalls(l) ==
    UNION {IF s.type = "pseudo-class" /\ s.call
           THEN (IF s.name = "global" THEN {s.name} ELSE {}) \cup GlobalCalls(s.arg)
           ELSE {} : s \in Top(l)}

ComplexSelectorErrors == {"composes cannot be used with complex selectors",
                          "composes cannot be used on a non-simple class selector"}

\* the step taken is the callback of walk p on its next node
Handles(p) == HasNext(p)
Failed == pass' = "failed"

IsPrefix(s, t) == Len(s) <= Len(t) /\ SubSeq(t, 1, Len(s)) = s

LocalRef(ls, n) == [type |-> "local", name |-> n, local |-> Entry(ls, n).local, specifier |-> ""]

ReadmeSheet == <<Rule(SelFoo, AnimationRotate, FALSE), Keyframes("rotate")>>
ReadmeSheetReversed == <<Keyframes("rotate"), Rule(SelFoo, AnimationRotate, FALSE)>>

----------------------------------------------------------------------------
\* Properties

\* C1: a valid `composes: foo` on a top-level rule whose selector is a list of
\* single class/id selectors does not fail, and the same reference to foo is
\* appended to the composes list of the entry of every name of the list.
C1_ComposesOnList ==
    [][(/\ Handles("composes")
        /\ ~root[NextNode("composes")].nested
        /\ IsSimpleList(root[NextNode("composes")].sel)
        /\ root[NextNode("composes")].decl = ComposesFoo)
       => (/\ ~Failed
           /\ \A n \in AllNames(root[NextNode("composes")].sel) :
                /\ Has(locals', n)
                /\ Entry(locals', n).composes # <<>>
                /\ Entry(locals', n).composes[Len(Entry(locals', n).composes)]
                      = LocalRef(locals', "foo"))]_vars

\* C2: the registry never holds two entries for one name, and no step changes
\* the local of an existing entry or removes or reorders references already in
\* its composes list.
C2_EntriesStable ==
    [][/\ \A i, j \in 1..Len(locals') : locals'[i].name = locals'[j].name => i = j
       /\ \A i \in 1..Len(locals) :
            /\ i <= Len(locals')
            /\ locals'[i].name = locals[i].name
            /\ locals'[i].local = locals[i].local
            /\ IsPrefix(locals[i].composes, locals'[i].composes)]_vars

\* a run that registered foo, appended references to an entry, and asked for foo again
C2_Witness ==
    /\ pass = "done"
    /\ input = <<Rule(SelAB, NoDecl, FALSE), Rule(SelA, ComposesFoo, FALSE)>>
    /\ Keys(locals) = {"foo", "a", "b"}
    /\ Entry(locals, "a").composes # <<>>

\* C3: for the README stylesheet, in either order, the run ends with the
\* animation token and the @keyframes name both equal to the one generated name
\* of rotate, the selector carrying the generated name of foo, and an export
\* record for exactly foo and rotate.
C3_ReadmeExample ==
    input \in {ReadmeSheet, ReadmeSheetReversed} =>
        /\ pass # "failed"
        /\ pass = "done" =>
            LET r == CHOOSE i \in 1..2 : root[i].kind = "rule"
                k == CHOOSE i \in 1..2 : root[i].kind = "atrule"
            IN /\ Len(messages) = 1
               /\ Keys(messages[1].locals) = {"foo", "rotate"}
               /\ root[k].params = Entry(messages[1].locals, "rotate").local
               /\ root[r].decl.value[1] = Word(root[k].params)
               /\ root[k].params # "rotate"
               /\ SubSeq(root[r].decl.value, 2, 4) = SubSeq(input[r].decl.value, 2, 4)
               /\ root[r].selector = <<"." \o Entry(messages[1].locals, "foo").local>>

C3_Witness == pass = "done" /\ input = ReadmeSheet /\ Len(messages) = 1

\* C4: a successful selector callback leaves every class name written inside
\* :global(...) literal and unregistered, replaces every class or id written
\* outside by its generated name, and drops the :global( ) wrapper.
C4_GlobalKept ==
    [][(Handles("rules") /\ ~Failed /\ BareScopes(root[NextNode("rules")].sel) = {})
       => LET i == NextNode("rules")
              sel == root[i].sel
              out == Range(root'[i].selector)
          IN /\ \A n \in GlobalNames(sel) \ OutsideNames(sel) :
                  /\ ("." \o n) \in out
                  /\ n \notin Keys(locals) => n \notin Keys(locals')
             /\ \A n \in OutsideNames(sel) :
                  /\ Has(locals', n)
                  /\ {"." \o Entry(locals', n).local, "#" \o Entry(locals', n).local} \cap out # {}
                  /\ {"." \o n, "#" \o n} \cap out = {}
             /\ GlobalCalls(sel) # {} => ":global" \notin out]_vars

\* C5: a selector callback on a rule with a bare :local or :global does not
\* fail and leaves the pseudo in the selector.
C5_BareScopeUntouched ==
    [][(/\ Handles("rules")
        /\ BareScopes(root[NextNode("rules")].sel) # {}
        /\ InvalidScopes(root[NextNode("rules")].sel) = {})
       => (/\ ~Failed
           /\ \A n \in BareScopes(root[NextNode("rules")].sel) :
                (":" \o n) \in Range(root'[NextNode("rules")].selector))]_vars

\* C6 as stated: processing `composes: foo from global` or `from '<specifier>'`
\* leaves foo without an entry if it had none.
C6_Original ==
    [][(/\ Handles("composes")
        /\ root[NextNode("composes")].decl \in {ComposesFooGlobal, ComposesFooDep}
        /\ ~Has(locals, "foo"))
       => ~Has(locals', "foo")]_vars

\* C6 amended: processing `composes: foo from global` or `from '<specifier>'`
\* leaves foo without an entry if it had none, unless foo is a name of the
\* rule's own selector; the plain form registers foo.
C6_ReferenceNotRegistered ==
    [][Handles("composes") =>
        LET node == root[NextNode("composes")]
        IN /\ (/\ node.decl \in {ComposesFooGlobal, ComposesFooDep}
               /\ ~Has(locals, "foo")
               /\ "foo" \notin AllNames(node.sel))
              => ~Has(locals', "foo")
           /\ (node.decl = ComposesFoo /\ ~Failed) => Has(locals', "foo")]_vars

C6_Witness ==
    /\ pass = "done"
    /\ input = <<Rule(SelA, ComposesFooGlobal, FALSE)>>
    /\ Keys(locals) = {"a"}
    /\ Entry(locals, "a").composes =
          <<[type |-> "global", name |-> "foo", local |-> "", specifier |-> ""]>>

\* C7: composes on a top-level rule one of whose branches is not exactly one
\* class or id selector fails with the complex-selector error, the declaration
\* stays, and the registry is as before.
C7_ComplexSelectorFails ==
    [][(/\ Handles("composes")
        /\ ~root[NextNode("composes")].nested
        /\ ~IsSimpleList(root[NextNode("composes")].sel))
       => (/\ Failed
           /\ error' \in ComplexSelectorErrors
           /\ root' = root
           /\ locals' = locals)]_vars

C7_Witness ==
    /\ pass = "failed"
    /\ error \in ComplexSelectorErrors
    /\ input = <<Rule(SelAHover, ComposesFoo, FALSE)>>
    /\ root = input

\* C8: a selector callback on a rule with a :local(...) or :global(...) whose
\* argument is empty or a list of several selectors fails with "expected a
\* single selector as argument", with the selector text as it was and no
\* export record emitted.
C8_InvalidScopeFails ==
    [][(Handles("rules") /\ InvalidScopes(root[NextNode("rules")].sel) # {})
       => (/\ Failed
           /\ error' \in {"expected a single selector as argument to :" \o n \o "()" :
                             n \in InvalidScopes(root[NextNode("rules")].sel)}
           /\ root'[NextNode("rules")].selector = SourceList(root[NextNode("rules")].sel)
           /\ messages' = <<>>)]_vars

C8_Witness ==
    /\ pass = "failed"
    /\ error = "expected a single selector as argument to :local()"
    /\ input = <<Rule(SelLocalEmpty, NoDecl, FALSE)>>
    /\ messages = <<>>

\* names registered by the keyframes pass, the composes pass, or an
\* animation-name declaration among the first c nodes
RegisteredBeforeShorthand(c) ==
    {input[i].params : i \in {j \in 1..Len(input) : input[j].kind = "atrule"}}
    \cup UNION {AllNames(input[i].sel) \cup {"foo"} :
                  i \in {j \in 1..Len(input) : input[j].decl.prop = "composes"}}
    \cup {input[i].decl.value[1].text :
            i \in {j \in 1..c : input[j].decl.prop = "animation-name"}}

\* C9: the animation shorthand callback replaces exactly the tokens that are
\* keys of the registry, which are names registered by the keyframes pass, the
\* composes pass or an earlier animation-name; it leaves every other token and
\* the registry as they were.
C9_ShorthandTokens ==
    [][(Handles("animation") /\ root[NextNode("animation")].decl.prop = "animation")
       => LET i == NextNode("animation")
              old == root[i].decl.value
              new == root'[i].decl.value
          IN /\ locals' = locals
             /\ index' = index
             /\ Len(new) = Len(old)
             /\ Keys(locals) \subseteq RegisteredBeforeShorthand(i)
             /\ \A k \in 1..Len(old) :
                  IF old[k].text \in Keys(locals)
                  THEN new[k] = Word(Entry(locals, old[k].text).local)
                  ELSE new[k] = old[k]]_vars

\* foo is registered only by the selector pass, after the shorthand was processed
C9_Witness ==
    /\ pass = "done"
    /\ input = <<Rule(SelFoo, AnimationFoo, FALSE), Keyframes("rotate")>>
    /\ root[1].decl.value = input[1].decl.value
    /\ Keys(locals) = {"rotate", "foo"}

\* C10: in index.js the counter equals the number of entries, the k-th entry
\* was generated with ordinal k-1, and under the short form no two entries
\* have the same scoped name.
C10_OrdinalCounter ==
    variant = "parsel" =>
        /\ index = Len(locals)
        /\ \A k \in 1..Len(locals) :
              locals[k].local = Generate(generateScopedName, locals[k].name, file, k - 1)
        /\ generateScopedName = "short" =>
              \A i, j \in 1..Len(locals) : locals[i].local = locals[j].local => i = j

C10_Witness ==
    /\ variant = "parsel"
    /\ generateScopedName = "short"
    /\ pass = "done"
    /\ Len(locals) >= 3
    /\ index = 3
====
